---- MODULE Spec2Model ----
(***************************************************************************)
(* Model of backend/app/utils/s3_utils.py: the S3Client singleton and its  *)
(* five operations (upload_file, delete_file, list_files_without_urls,     *)
(* list_files, get_file_url) over the storage SDK.                         *)
(*                                                                         *)
(* The SDK client and the storage service are the environment.  A request  *)
(* is either rejected by the service (botocore ClientError), refused by    *)
(* the SDK's parameter validation (ParamValidationError, which is not a    *)
(* ClientError) or served.  The environment's choice for one wrapper call  *)
(* is the record env: which SDK call of the operation is rejected (0 for   *)
(* none) and with which error code, and for an upload the service's clock. *)
(***************************************************************************)
EXTENDS Integers, Sequences, FiniteSets, TLC

VARIABLES
    S3_BUCKET,   \* AppConfig.S3_BUCKET, fixed for the process
    _instance,   \* S3Client._instance: None or an object id
    heap,        \* heap[o]: the attributes set on S3Client object o
    sdkClients,  \* number of boto3.client(...) calls made so far
    configReads, \* number of times the AppConfig values were read
    handles,     \* the objects sequential callers got back from S3Client()
    store,       \* the storage service: store[bucket][key] is an object or None
    last,        \* the last completed wrapper call and how it ended
    calls,       \* the SDK requests the last wrapper call made, in order
    log,         \* the logger entries the last wrapper call wrote, in order
    deleted,     \* keys delete_file removed with no upload_file of them since
    pc,          \* pc[t]: thread t's position inside S3Client.__new__
    tmp,         \* tmp[t]: the boto3 client thread t built and has not stored yet
    ret          \* ret[t]: what thread t's S3Client() call ended with

vars == <<S3_BUCKET, _instance, heap, sdkClients, configReads, handles,
          store, last, calls, log, deleted, pc, tmp, ret>>

thrVars == <<pc, tmp, ret>>

----------------------------------------------------------------------------
(* Bounds of the model *)

MaxTime == 1        \* the service's clock reads 1..MaxTime
PageSize == 2       \* objects per listing page (the service's MaxKeys)
NumThreads == 2     \* threads calling S3Client() concurrently

(* Program constants *)

DefaultExpiresIn == 21600

NoneRef == 0        \* the None reference; objects and SDK clients are numbered from 1

None == "None"

BucketNames == {"", "pondera"}          \* possible AppConfig.S3_BUCKET values
Buckets == {"pondera", "backup"}        \* buckets the service hosts
Keys == {<<"a">>, <<"a", "b">>, <<"b">>}
Prefixes == {<< >>, <<"a">>, <<"a", "b">>, <<"b">>}
Bodies == {<< >>, <<0>>}                \* uploaded bodies: empty, one byte
ContentTypes == {"text/plain"}
ExpiresChoices == {60, 3600}
ErrorCodes == {"AccessDenied", "SlowDown"}
Times == 1..MaxTime
Threads == 1..NumThreads

----------------------------------------------------------------------------
(* The storage SDK and service *)

CharRank(c) == IF c = "a" THEN 1 ELSE 2

RECURSIVE LexLess(_, _)
LexLess(k1, k2) ==
    IF k1 = << >> THEN k2 # << >>
    ELSE IF k2 = << >> THEN FALSE
    ELSE IF Head(k1) = Head(k2) THEN LexLess(Tail(k1), Tail(k2))
    ELSE CharRank(Head(k1)) < CharRank(Head(k2))

StartsWith(k, p) == Len(p) <= Len(k) /\ SubSeq(k, 1, Len(p)) = p

RECURSIVE SortKeys(_)
SortKeys(S) ==
    IF S = {} THEN << >>
    ELSE LET m == CHOOSE k \in S : \A j \in S \ {k} : LexLess(k, j)
         IN <<m>> \o SortKeys(S \ {m})

ValidBucketName(b) == b # ""

ClientError(code, operation) ==
    [type |-> "ClientError", code |-> code, operation |-> operation]

ParamValidationError == [type |-> "ParamValidationError"]

StrOfError(e) == <<"An error occurred", e.code, e.operation>>

IsoFormat(t) == <<"iso8601", t>>

PresignedUrl(method, b, k, e) == <<"https", b, k, method, "X-Amz-Expires", e>>

\* store[b] maps the keys present in bucket b to their objects.
EmptyStore == [b \in Buckets |-> << >>]

Restrict(f, S) == [x \in S |-> f[x]]

put_object(st, b, k, body, ct, t) ==
    [st EXCEPT ![b] =
        (k :> [Body |-> body, ContentType |-> ct, LastModified |-> t]) @@ @]

delete_object(st, b, k) == [st EXCEPT ![b] = Restrict(@, DOMAIN @ \ {k})]

Matching(st, b, p) == SortKeys({k \in DOMAIN st[b] : StartsWith(k, p)})

Min(a, b) == IF a < b THEN a ELSE b

list_objects_v2(st, b, p) ==
    LET all == Matching(st, b, p)
        n == Min(Len(all), PageSize)
        base == [KeyCount |-> n, IsTruncated |-> Len(all) > n, Prefix |-> p]
        contents == [i \in 1..n |->
                        [Key |-> all[i],
                         Size |-> Len(st[b][all[i]].Body),
                         LastModified |-> st[b][all[i]].LastModified]]
        token == IF Len(all) > n
                 THEN [NextContinuationToken |-> all[n]]
                 ELSE << >>
    IN IF n = 0 THEN base
       ELSE token @@ [Contents |-> contents] @@ base

----------------------------------------------------------------------------
(* Results of a wrapper call: how it ended, the requests it made, the log  *)
(* entries it wrote and the service's contents afterwards.                 *)

Return(v, cs, lg, st) ==
    [raised |-> FALSE, value |-> v, exc |-> None, calls |-> cs, log |-> lg, store |-> st]

Raise(e, cs, lg, st) ==
    [raised |-> TRUE, value |-> None, exc |-> e, calls |-> cs, log |-> lg, store |-> st]

\* An SDK request as recorded in calls, with what the SDK answered.
Served(req) == [result |-> "ok"] @@ req
Rejected(req, e) == [result |-> "ClientError", error |-> e] @@ req
Refused(req) == [result |-> "ParamValidationError"] @@ req

Info(msg, arg) == [level |-> "info", msg |-> msg, arg |-> arg]
Error(msg, arg) == [level |-> "error", msg |-> msg, arg |-> arg]

----------------------------------------------------------------------------
(* S3Client's operations.  self is the handle's attribute record, st the   *)
(* service's contents when the call starts, n the position of the          *)
(* operation's next SDK call among those of the enclosing wrapper call.    *)

\* An argument list position: << >> when the caller omits it, <<v>> otherwise.
ArgOr(arg, default) == IF arg = << >> THEN default ELSE arg[1]

\* get_file_url that signs with the default expiry whatever the caller passes.
get_file_url_fixed_expiry(self, file_key, expires_arg, st, env, n) ==
    LET req == [api |-> "generate_presigned_url", client |-> self.s3,
                method |-> "get_object", Bucket |-> self.bucket_name,
                Key |-> file_key, ExpiresIn |-> DefaultExpiresIn]
        e == ClientError(env.code, "GeneratePresignedUrl")
    IN IF ~ValidBucketName(self.bucket_name)
       THEN Raise(ParamValidationError, <<Refused(req)>>, << >>, st)
       ELSE IF env.rejectAt = n
       THEN Raise(e, <<Rejected(req, e)>>,
                  <<Error("Error generating presigned URL", StrOfError(e))>>, st)
       ELSE Return(PresignedUrl("get_object", self.bucket_name, file_key,
                                DefaultExpiresIn),
                   <<Served(req)>>,
                   <<Info("Generated presigned URL for file", file_key)>>, st)

get_file_url(self, file_key, expires_arg, st, env, n) ==
    LET expires_in == ArgOr(expires_arg, DefaultExpiresIn)
        req == [api |-> "generate_presigned_url", client |-> self.s3,
                method |-> "get_object", Bucket |-> self.bucket_name,
                Key |-> file_key, ExpiresIn |-> expires_in]
        e == ClientError(env.code, "GeneratePresignedUrl")
    IN IF ~ValidBucketName(self.bucket_name)
       THEN Raise(ParamValidationError, <<Refused(req)>>, << >>, st)
       ELSE IF env.rejectAt = n
       THEN Raise(e, <<Rejected(req, e)>>,
                  <<Error("Error generating presigned URL", StrOfError(e))>>, st)
       ELSE Return(PresignedUrl("get_object", self.bucket_name, file_key, expires_in),
                   <<Served(req)>>,
                   <<Info("Generated presigned URL for file", file_key)>>, st)

\* upload_file that returns the URL without writing the object.
upload_file_no_put(self, file_data, file_key, content_type, st, env) ==
    LET u == get_file_url(self, file_key, << >>, st, env, 1)
    IN IF u.raised /\ u.exc.type = "ClientError"
       THEN Raise(u.exc, u.calls,
                  u.log \o <<Error("Error uploading file to S3", StrOfError(u.exc))>>,
                  u.store)
       ELSE u

\* upload_file that deletes the object again when the URL cannot be made.
upload_file_rollback(self, file_data, file_key, content_type, st, env) ==
    LET req == [api |-> "put_object", client |-> self.s3,
                Bucket |-> self.bucket_name, Key |-> file_key,
                Body |-> file_data, ContentType |-> content_type]
        e == ClientError(env.code, "PutObject")
        st1 == put_object(st, self.bucket_name, file_key, file_data,
                          content_type, env.now)
        lg1 == <<Info("Uploaded file to S3", file_key)>>
        u == get_file_url(self, file_key, << >>, st1, env, 2)
    IN IF ~ValidBucketName(self.bucket_name)
       THEN Raise(ParamValidationError, <<Refused(req)>>, << >>, st)
       ELSE IF env.rejectAt = 1
       THEN Raise(e, <<Rejected(req, e)>>,
                  <<Error("Error uploading file to S3", StrOfError(e))>>, st)
       ELSE IF u.raised
       THEN Raise(u.exc, <<Served(req)>> \o u.calls,
                  lg1 \o u.log
                      \o <<Error("Error uploading file to S3", StrOfError(u.exc))>>,
                  delete_object(u.store, self.bucket_name, file_key))
       ELSE Return(u.value, <<Served(req)>> \o u.calls, lg1 \o u.log, u.store)

upload_file(self, file_data, file_key, content_type, st, env) ==
    LET req == [api |-> "put_object", client |-> self.s3,
                Bucket |-> self.bucket_name, Key |-> file_key,
                Body |-> file_data, ContentType |-> content_type]
        e == ClientError(env.code, "PutObject")
        st1 == put_object(st, self.bucket_name, file_key, file_data,
                          content_type, env.now)
        lg1 == <<Info("Uploaded file to S3", file_key)>>
        u == get_file_url(self, file_key, << >>, st1, env, 2)
    IN IF ~ValidBucketName(self.bucket_name)
       THEN Raise(ParamValidationError, <<Refused(req)>>, << >>, st)
       ELSE IF env.rejectAt = 1
       THEN Raise(e, <<Rejected(req, e)>>,
                  <<Error("Error uploading file to S3", StrOfError(e))>>, st)
       ELSE IF u.raised /\ u.exc.type = "ClientError"
       THEN Raise(u.exc, <<Served(req)>> \o u.calls,
                  lg1 \o u.log
                      \o <<Error("Error uploading file to S3", StrOfError(u.exc))>>,
                  u.store)
       ELSE IF u.raised
       THEN Raise(u.exc, <<Served(req)>> \o u.calls, lg1 \o u.log, u.store)
       ELSE Return(u.value, <<Served(req)>> \o u.calls, lg1 \o u.log, u.store)

\* delete_file that logs a rejected delete and returns as if it had succeeded.
delete_file_swallow(self, file_key, st, env) ==
    LET req == [api |-> "delete_object", client |-> self.s3,
                Bucket |-> self.bucket_name, Key |-> file_key]
        e == ClientError(env.code, "DeleteObject")
    IN IF ~ValidBucketName(self.bucket_name)
       THEN Raise(ParamValidationError, <<Refused(req)>>, << >>, st)
       ELSE IF env.rejectAt = 1
       THEN Return(None, <<Rejected(req, e)>>,
                   <<Error("Error deleting file from S3", StrOfError(e))>>, st)
       ELSE Return(None, <<Served(req)>>,
                   <<Info("Deleted file from S3", file_key)>>,
                   delete_object(st, self.bucket_name, file_key))

\* delete_file that sends the delete to another bucket than the configured one.
delete_file_other_bucket(self, file_key, st, env) ==
    LET req == [api |-> "delete_object", client |-> self.s3,
                Bucket |-> "backup", Key |-> file_key]
        e == ClientError(env.code, "DeleteObject")
    IN IF ~ValidBucketName(self.bucket_name)
       THEN Raise(ParamValidationError, <<Refused(req)>>, << >>, st)
       ELSE IF env.rejectAt = 1
       THEN Raise(e, <<Rejected(req, e)>>,
                  <<Error("Error deleting file from S3", StrOfError(e))>>, st)
       ELSE Return(None, <<Served(req)>>,
                   <<Info("Deleted file from S3", file_key)>>,
                   delete_object(st, "backup", file_key))

delete_file(self, file_key, st, env) ==
    LET req == [api |-> "delete_object", client |-> self.s3,
                Bucket |-> self.bucket_name, Key |-> file_key]
        e == ClientError(env.code, "DeleteObject")
    IN IF ~ValidBucketName(self.bucket_name)
       THEN Raise(ParamValidationError, <<Refused(req)>>, << >>, st)
       ELSE IF env.rejectAt = 1
       THEN Raise(e, <<Rejected(req, e)>>,
                  <<Error("Error deleting file from S3", StrOfError(e))>>, st)
       ELSE Return(None, <<Served(req)>>,
                   <<Info("Deleted file from S3", file_key)>>,
                   delete_object(st, self.bucket_name, file_key))

FileRecord(obj) ==
    [key |-> obj.Key, size |-> obj.Size, last_modified |-> IsoFormat(obj.LastModified)]

\* list_files_without_urls that follows the continuation token to the end.
list_files_all_pages(self, prefix, st, env) ==
    LET req == [api |-> "list_objects_v2", client |-> self.s3,
                Bucket |-> self.bucket_name, Prefix |-> prefix]
        e == ClientError(env.code, "ListObjectsV2")
        response == list_objects_v2(st, self.bucket_name, prefix)
        all == Matching(st, self.bucket_name, prefix)
        files == [i \in 1..Len(all) |->
                     FileRecord([Key |-> all[i],
                                 Size |-> Len(st[self.bucket_name][all[i]].Body),
                                 LastModified |->
                                     st[self.bucket_name][all[i]].LastModified])]
        more == IF response.IsTruncated
                THEN <<Served([ContinuationToken |-> response.NextContinuationToken]
                              @@ req)>>
                ELSE << >>
    IN IF ~ValidBucketName(self.bucket_name)
       THEN Raise(ParamValidationError, <<Refused(req)>>, << >>, st)
       ELSE IF env.rejectAt = 1
       THEN Raise(e, <<Rejected(req, e)>>,
                  <<Error("Error listing files in S3", StrOfError(e))>>, st)
       ELSE Return(files, <<Served(req)>> \o more, << >>, st)

list_files_without_urls(self, prefix, st, env) ==
    LET req == [api |-> "list_objects_v2", client |-> self.s3,
                Bucket |-> self.bucket_name, Prefix |-> prefix]
        e == ClientError(env.code, "ListObjectsV2")
        response == list_objects_v2(st, self.bucket_name, prefix)
        files == IF "Contents" \in DOMAIN response
                 THEN [i \in 1..Len(response.Contents) |->
                          FileRecord(response.Contents[i])]
                 ELSE << >>
    IN IF ~ValidBucketName(self.bucket_name)
       THEN Raise(ParamValidationError, <<Refused(req)>>, << >>, st)
       ELSE IF env.rejectAt = 1
       THEN Raise(e, <<Rejected(req, e)>>,
                  <<Error("Error listing files in S3", StrOfError(e))>>, st)
       ELSE Return(files, <<Served(req)>>, << >>, st)

\* The loop of list_files signing the first file's key for every record.
RECURSIVE AddUrls_first_key(_, _, _, _)
AddUrls_first_key(self, acc, i, env) ==
    IF i > Len(acc.value) THEN acc
    ELSE LET u == get_file_url(self, acc.value[1].key, << >>, acc.store, env, i + 1)
         IN IF u.raised
            THEN Raise(u.exc, acc.calls \o u.calls, acc.log \o u.log, u.store)
            ELSE AddUrls_first_key(self,
                         Return([acc.value EXCEPT ![i] = [url |-> u.value] @@ @],
                                acc.calls \o u.calls, acc.log \o u.log, u.store),
                         i + 1, env)

\* The loop of list_files from file i on; acc is the call's result so far.
RECURSIVE AddUrls(_, _, _, _)
AddUrls(self, acc, i, env) ==
    IF i > Len(acc.value) THEN acc
    ELSE LET u == get_file_url(self, acc.value[i].key, << >>, acc.store, env, i + 1)
         IN IF u.raised
            THEN Raise(u.exc, acc.calls \o u.calls, acc.log \o u.log, u.store)
            ELSE AddUrls(self,
                         Return([acc.value EXCEPT ![i] = [url |-> u.value] @@ @],
                                acc.calls \o u.calls, acc.log \o u.log, u.store),
                         i + 1, env)

list_files(self, prefix, st, env) ==
    LET files == list_files_without_urls(self, prefix, st, env)
    IN IF files.raised THEN files ELSE AddUrls(self, files, 1, env)

----------------------------------------------------------------------------
(* S3Client.__new__, run without interruption.  inst is cls._instance, hp  *)
(* the heap, cfg AppConfig.S3_BUCKET, nc and nr the counts of SDK clients  *)
(* created and of configuration reads so far.                              *)

SetAttr(obj, name, v) == (name :> v) @@ obj
HasAttr(obj, name) == name \in DOMAIN obj

ValueError == [type |-> "ValueError"]
AttributeError == [type |-> "AttributeError"]

\* S3Client.__new__ without the "is None" test of line 15.
S3Client_new_unguarded(inst, hp, cfg, nc, nr) ==
    LET o == Len(hp) + 1
        obj == SetAttr(SetAttr(<< >>, "s3", nc + 1), "bucket_name", cfg)
    IN [raised |-> cfg = "", value |-> IF cfg = "" THEN NoneRef ELSE o,
        exc |-> IF cfg = "" THEN ValueError ELSE None, log |-> << >>,
        instance |-> o, heap |-> Append(hp, obj),
        sdkClients |-> nc + 1, configReads |-> nr + 1]

S3Client_new(inst, hp, cfg, nc, nr) ==
    LET o == Len(hp) + 1
        client == nc + 1
        hp1 == Append(hp, << >>)
        hp2 == [hp1 EXCEPT ![o] = SetAttr(@, "s3", client)]
        hp3 == [hp2 EXCEPT ![o] = SetAttr(@, "bucket_name", cfg)]
    IN IF inst = NoneRef
       THEN IF hp3[o].bucket_name = ""
            THEN [raised |-> TRUE, value |-> NoneRef, exc |-> ValueError,
                  log |-> <<Error("AWS_BUCKET_NAME environment variable is required",
                                  << >>)>>,
                  instance |-> o, heap |-> hp3,
                  sdkClients |-> client, configReads |-> nr + 1]
            ELSE [raised |-> FALSE, value |-> o, exc |-> None,
                  log |-> <<Info("Connected to S3 bucket", hp3[o].bucket_name)>>,
                  instance |-> o, heap |-> hp3,
                  sdkClients |-> client, configReads |-> nr + 1]
       ELSE [raised |-> FALSE, value |-> inst, exc |-> None, log |-> << >>,
             instance |-> inst, heap |-> hp,
             sdkClients |-> nc, configReads |-> nr]

----------------------------------------------------------------------------
(* The sequential program: one caller constructing S3Client and calling    *)
(* the operations on the handles it got.                                   *)

\* The environment's choices for a wrapper call that makes up to m SDK calls.
Envs(m) == {[rejectAt |-> 0]}
               \cup {[rejectAt |-> i, code |-> c] : i \in 1..m, c \in ErrorCodes}

Finish(op, args, r) ==
    /\ last' = [op |-> op, args |-> args, raised |-> r.raised,
                value |-> r.value, exc |-> r.exc]
    /\ calls' = r.calls
    /\ log' = r.log
    /\ store' = r.store
    /\ UNCHANGED <<S3_BUCKET, _instance, heap, sdkClients, configReads, handles>>
    /\ UNCHANGED thrVars

Construct ==
    LET r == S3Client_new(_instance, heap, S3_BUCKET, sdkClients, configReads)
    IN /\ _instance' = r.instance
       /\ heap' = r.heap
       /\ sdkClients' = r.sdkClients
       /\ configReads' = r.configReads
       /\ handles' = IF r.raised THEN handles ELSE handles \cup {r.value}
       /\ last' = [op |-> "S3Client", args |-> [first |-> _instance = NoneRef],
                   raised |-> r.raised, value |-> r.value, exc |-> r.exc]
       /\ calls' = << >>
       /\ log' = r.log
       /\ UNCHANGED <<S3_BUCKET, store, deleted>>
       /\ UNCHANGED thrVars

Upload ==
    \E h \in handles, d \in Bodies, k \in Keys, ct \in ContentTypes,
       env \in Envs(2), t \in Times :
        /\ Finish("upload_file",
                  [self |-> h, file_data |-> d, file_key |-> k, content_type |-> ct],
                  upload_file(heap[h], d, k, ct, store, [now |-> t] @@ env))
        /\ deleted' = deleted \ {k}

Delete ==
    \E h \in handles, k \in Keys, env \in Envs(1) :
        LET r == delete_file(heap[h], k, store, env)
        IN /\ Finish("delete_file", [self |-> h, file_key |-> k], r)
           /\ deleted' = IF r.raised THEN deleted ELSE deleted \cup {k}

ListWithoutUrls ==
    \E h \in handles, p \in Prefixes, env \in Envs(1) :
        /\ Finish("list_files_without_urls", [self |-> h, prefix |-> p],
                  list_files_without_urls(heap[h], p, store, env))
        /\ UNCHANGED deleted

List ==
    \E h \in handles, p \in Prefixes, env \in Envs(PageSize + 1) :
        /\ Finish("list_files", [self |-> h, prefix |-> p],
                  list_files(heap[h], p, store, env))
        /\ UNCHANGED deleted

GetUrl ==
    \E h \in handles, k \in Keys, env \in Envs(1),
       x \in {<< >>} \cup {<<e>> : e \in ExpiresChoices} :
        /\ Finish("get_file_url", [self |-> h, file_key |-> k, expires_in |-> x],
                  get_file_url(heap[h], k, x, store, env, 1))
        /\ UNCHANGED deleted

Init ==
    /\ S3_BUCKET \in BucketNames
    /\ _instance = NoneRef
    /\ heap = << >>
    /\ sdkClients = 0
    /\ configReads = 0
    /\ handles = {}
    /\ store = EmptyStore
    /\ last = [op |-> "none"]
    /\ calls = << >>
    /\ log = << >>
    /\ deleted = {}
    /\ pc = [t \in Threads |-> "L15"]
    /\ tmp = [t \in Threads |-> NoneRef]
    /\ ret = [t \in Threads |-> [raised |-> FALSE, value |-> NoneRef, exc |-> None]]

Next ==
    \/ Construct
    \/ Upload
    \/ Delete
    \/ ListWithoutUrls
    \/ List
    \/ GetUrl

Spec == Init /\ [][Next]_vars

----------------------------------------------------------------------------
(* S3Client.__new__ called by several threads at once.  The interpreter    *)
(* may switch threads between any two statements, and between evaluating   *)
(* the right-hand side of line 23 and storing it; every read of            *)
(* cls._instance is a fresh read of the class attribute.  pc[t] names the  *)
(* line thread t executes next.                                            *)

Goto(t, line) == pc' = [pc EXCEPT ![t] = line]

Ends(t, raised, value, exc) ==
    /\ ret' = [ret EXCEPT ![t] = [raised |-> raised, value |-> value, exc |-> exc]]
    /\ pc' = [pc EXCEPT ![t] = IF raised THEN "raised" ELSE "done"]

sharedVars == <<S3_BUCKET, handles, store, last, calls, deleted>>

\* line 15: if cls._instance is None
L15(t) ==
    /\ pc[t] = "L15"
    /\ Goto(t, IF _instance = NoneRef THEN "L16" ELSE "L29")
    /\ UNCHANGED <<_instance, heap, sdkClients, configReads, log, tmp, ret>>
    /\ UNCHANGED sharedVars

\* line 16: cls._instance = super().__new__(cls)
L16(t) ==
    /\ pc[t] = "L16"
    /\ heap' = Append(heap, << >>)
    /\ _instance' = Len(heap) + 1
    /\ Goto(t, "L17")
    /\ UNCHANGED <<sdkClients, configReads, log, tmp, ret>>
    /\ UNCHANGED sharedVars

\* lines 17-23: s3_config is read from AppConfig and boto3.client(...) is evaluated
L17(t) ==
    /\ pc[t] = "L17"
    /\ configReads' = configReads + 1
    /\ sdkClients' = sdkClients + 1
    /\ tmp' = [tmp EXCEPT ![t] = sdkClients + 1]
    /\ Goto(t, "L23")
    /\ UNCHANGED <<_instance, heap, log, ret>>
    /\ UNCHANGED sharedVars

\* line 23: cls._instance.s3 = <the client just built>
L23(t) ==
    /\ pc[t] = "L23"
    /\ heap' = [heap EXCEPT ![_instance] = SetAttr(@, "s3", tmp[t])]
    /\ Goto(t, "L24")
    /\ UNCHANGED <<_instance, sdkClients, configReads, log, tmp, ret>>
    /\ UNCHANGED sharedVars

\* line 24: cls._instance.bucket_name = AppConfig.S3_BUCKET
L24(t) ==
    /\ pc[t] = "L24"
    /\ heap' = [heap EXCEPT ![_instance] = SetAttr(@, "bucket_name", S3_BUCKET)]
    /\ Goto(t, "L25")
    /\ UNCHANGED <<_instance, sdkClients, configReads, log, tmp, ret>>
    /\ UNCHANGED sharedVars

\* lines 25-27: if not cls._instance.bucket_name: log and raise ValueError
L25(t) ==
    /\ pc[t] = "L25"
    /\ IF ~HasAttr(heap[_instance], "bucket_name")
       THEN Ends(t, TRUE, NoneRef, AttributeError) /\ UNCHANGED log
       ELSE IF heap[_instance].bucket_name = ""
       THEN /\ Ends(t, TRUE, NoneRef, ValueError)
            /\ log' = Append(log,
                   Error("AWS_BUCKET_NAME environment variable is required", << >>))
       ELSE Goto(t, "L28") /\ UNCHANGED <<log, ret>>
    /\ UNCHANGED <<_instance, heap, sdkClients, configReads, tmp>>
    /\ UNCHANGED sharedVars

\* line 28: logger.info(f"Connected to S3 bucket: {cls._instance.bucket_name}")
L28(t) ==
    /\ pc[t] = "L28"
    /\ IF ~HasAttr(heap[_instance], "bucket_name")
       THEN Ends(t, TRUE, NoneRef, AttributeError) /\ UNCHANGED log
       ELSE /\ Goto(t, "L29")
            /\ log' = Append(log, Info("Connected to S3 bucket",
                                       heap[_instance].bucket_name))
            /\ UNCHANGED ret
    /\ UNCHANGED <<_instance, heap, sdkClients, configReads, tmp>>
    /\ UNCHANGED sharedVars

\* line 29: return cls._instance
L29(t) ==
    /\ pc[t] = "L29"
    /\ Ends(t, FALSE, _instance, None)
    /\ UNCHANGED <<_instance, heap, sdkClients, configReads, log, tmp>>
    /\ UNCHANGED sharedVars

ThreadNext ==
    \/ \E t \in Threads : L15(t)
    \/ \E t \in Threads : L16(t)
    \/ \E t \in Threads : L17(t)
    \/ \E t \in Threads : L23(t)
    \/ \E t \in Threads : L24(t)
    \/ \E t \in Threads : L25(t)
    \/ \E t \in Threads : L28(t)
    \/ \E t \in Threads : L29(t)

SpecThreads == Init /\ [][ThreadNext]_vars

----------------------------------------------------------------------------
(* Properties *)

Ops == {"upload_file", "delete_file", "list_files_without_urls", "list_files",
        "get_file_url"}
Lists == {"list_files_without_urls", "list_files"}

IsOp(S) == last.op \in S
Ended(S) == IsOp(S) /\ ~last.raised
Self == heap[last.args.self]
Request(c) == Restrict(c, DOMAIN c \ {"result", "error"})
CallsOf(api) == {i \in 1..Len(calls) : calls[i].api = api}
KeysOf(files) == [i \in 1..Len(files) |-> files[i].key]
AllEnded == \A t \in Threads : pc[t] \in {"done", "raised"}

\* C1: with an empty configured bucket name every S3Client() construction
\* raises, so no caller holds a handle and no request carries an empty bucket.
C1_EmptyBucketAlwaysRaises ==
    S3_BUCKET = "" =>
        /\ last.op = "S3Client" => last.raised
        /\ handles = {}
        /\ \A i \in 1..Len(calls) : calls[i].Bucket # ""

\* C2: with a non-empty bucket name sequential constructions all return the
\* one object; the SDK client is created and the configuration read once,
\* and the handle's s3 and bucket_name stay what the first construction set.
C2_Singleton ==
    S3_BUCKET # "" =>
        /\ Len(heap) <= 1 /\ sdkClients <= 1 /\ configReads <= 1
        /\ _instance # NoneRef =>
              /\ handles = {_instance}
              /\ Len(heap) = 1 /\ sdkClients = 1 /\ configReads = 1
              /\ heap[_instance] = [s3 |-> 1, bucket_name |-> S3_BUCKET]
        /\ last.op = "S3Client" => ~last.raised /\ last.value = _instance

C2_Witness ==
    /\ S3_BUCKET # ""
    /\ last.op = "S3Client" /\ ~last.args.first /\ ~last.raised
    /\ last.value = _instance

\* C3: when threads call S3Client() concurrently with no instance yet, one
\* handle and one SDK client are created and every thread gets that handle.
C3_OneHandleUnderThreads ==
    (S3_BUCKET # "" /\ AllEnded) =>
        /\ Len(heap) = 1
        /\ sdkClients = 1
        /\ \A t \in Threads : ~ret[t].raised /\ ret[t].value = 1

\* C4: in every operation, an SDK call the service rejects with a
\* ClientError is the operation's last SDK call (it is not issued again),
\* an error entry naming that error is the last thing logged, and the
\* operation raises that very error instead of returning a value.
C4_LogAndReraise ==
    IsOp(Ops) =>
        \A i \in 1..Len(calls) :
            calls[i].result = "ClientError" =>
                /\ i = Len(calls)
                /\ \A j \in 1..Len(calls) :
                       j # i => Request(calls[j]) # Request(calls[i])
                /\ last.raised
                /\ last.exc = calls[i].error
                /\ last.exc.type = "ClientError"
                /\ Len(log) > 0
                /\ log[Len(log)].level = "error"
                /\ log[Len(log)].arg = StrOfError(calls[i].error)

C4_Witness ==
    /\ last.op = "list_files"
    /\ Len(calls) > 2
    /\ calls[Len(calls)].result = "ClientError"
    /\ last.raised

\* C5: a successful upload_file made one put request, for the given key in
\* the configured bucket, the object is stored there, and the value returned
\* is the URL get_file_url gives for that key with the default expiry; a
\* get_file_url call signs exactly one request, for its key and that bucket.
C5_UploadThenUrl ==
    /\ Ended({"upload_file"}) =>
          LET k == last.args.file_key
          IN /\ Cardinality(CallsOf("put_object")) = 1
             /\ calls[1].api = "put_object"
             /\ calls[1].Key = k /\ calls[1].Bucket = S3_BUCKET
             /\ k \in DOMAIN store[S3_BUCKET]
             /\ store[S3_BUCKET][k].Body = last.args.file_data
             /\ store[S3_BUCKET][k].ContentType = last.args.content_type
             /\ \A b \in Buckets \ {S3_BUCKET} : store[b] = << >>
             /\ last.value = get_file_url(Self, k, << >>, store, [rejectAt |-> 0], 1).value
             /\ last.value = PresignedUrl("get_object", S3_BUCKET, k, 21600)
    /\ IsOp({"get_file_url"}) =>
          /\ Len(calls) = 1
          /\ calls[1].api = "generate_presigned_url"
          /\ calls[1].Key = last.args.file_key
          /\ calls[1].Bucket = S3_BUCKET
          /\ ~last.raised => /\ last.value[2] = S3_BUCKET
                             /\ last.value[3] = last.args.file_key

C5_Witness ==
    /\ Ended({"upload_file"})
    /\ last.args.file_key = <<"a", "b">>
    /\ DOMAIN store[S3_BUCKET] = Keys

\* C6: a key delete_file removed, not uploaded since, is in no listing that
\* returns, whatever the prefix; delete_file raises nothing when the
\* service serves the delete, whether or not the key was there.
C6_DeletedNotListed ==
    /\ Ended(Lists) =>
          \A i \in 1..Len(last.value) : last.value[i].key \notin deleted
    /\ IsOp({"delete_file"}) =>
          /\ calls[1].result = "ok" => ~last.raised /\ last.args.file_key \in deleted
          /\ ~last.raised => last.args.file_key \notin DOMAIN store[S3_BUCKET]

C6_Witness ==
    /\ Ended(Lists)
    /\ Len(last.value) > 0
    /\ \E k \in deleted : StartsWith(k, last.args.prefix)

\* C7: list_files_without_urls records have exactly key, size and
\* last_modified; list_files records have those and url, the presigned URL
\* of the record's own key; both list the same keys in the same order.
C7_RecordFields ==
    /\ Ended({"list_files_without_urls"}) =>
          /\ \A i \in 1..Len(last.value) :
                 DOMAIN last.value[i] = {"key", "size", "last_modified"}
          /\ LET r == list_files(Self, last.args.prefix, store, [rejectAt |-> 0])
             IN KeysOf(r.value) = KeysOf(last.value)
    /\ Ended({"list_files"}) =>
          /\ \A i \in 1..Len(last.value) :
                 /\ DOMAIN last.value[i] = {"key", "size", "last_modified", "url"}
                 /\ last.value[i].url =
                        PresignedUrl("get_object", S3_BUCKET, last.value[i].key, 21600)
          /\ LET r == list_files_without_urls(Self, last.args.prefix, store,
                                              [rejectAt |-> 0])
             IN /\ KeysOf(r.value) = KeysOf(last.value)
                /\ \A i \in 1..Len(r.value) :
                       /\ r.value[i].size = last.value[i].size
                       /\ r.value[i].last_modified = last.value[i].last_modified

C7_Witness ==
    /\ Ended({"list_files"})
    /\ Len(last.value) = 2
    /\ last.value[1].key # last.value[2].key

\* C8: get_file_url signs with the caller's expires_in, or 21600 when it is
\* omitted; every URL made inside upload_file and list_files is signed
\* with 21600.
C8_Expiry ==
    /\ IsOp({"get_file_url"}) =>
          /\ Len(calls) = 1
          /\ calls[1].ExpiresIn = IF last.args.expires_in = << >> THEN 21600
                                  ELSE last.args.expires_in[1]
          /\ ~last.raised => last.value[6] = calls[1].ExpiresIn
    /\ IsOp({"upload_file", "list_files"}) =>
          \A i \in CallsOf("generate_presigned_url") : calls[i].ExpiresIn = 21600

C8_Witness ==
    /\ Ended({"get_file_url"})
    /\ last.args.expires_in = <<60>>
    /\ calls[1].ExpiresIn = 60

\* C9: a listing makes exactly one list request and no request with a
\* continuation token; it returns the objects of that one response in
\* response order, nothing when the response has no Contents, so at most
\* one page even when more objects match the prefix.
C9_SinglePage ==
    IsOp(Lists) =>
        /\ calls[1].api = "list_objects_v2"
        /\ calls[1].Bucket = S3_BUCKET /\ calls[1].Prefix = last.args.prefix
        /\ Cardinality(CallsOf("list_objects_v2")) = 1
        /\ \A i \in 1..Len(calls) : "ContinuationToken" \notin DOMAIN calls[i]
        /\ ~last.raised =>
              LET response == list_objects_v2(store, S3_BUCKET, last.args.prefix)
                  all == Matching(store, S3_BUCKET, last.args.prefix)
              IN /\ "Contents" \notin DOMAIN response => last.value = << >>
                 /\ "Contents" \in DOMAIN response =>
                        /\ Len(last.value) = Len(response.Contents)
                        /\ \A i \in 1..Len(last.value) :
                               /\ last.value[i].key = response.Contents[i].Key
                               /\ last.value[i].size = response.Contents[i].Size
                               /\ last.value[i].last_modified =
                                      IsoFormat(response.Contents[i].LastModified)
                 /\ Len(last.value) <= PageSize
                 /\ KeysOf(last.value) = SubSeq(all, 1, Len(last.value))
                 /\ Len(all) > PageSize => Len(last.value) = PageSize

C9_Witness ==
    /\ Ended(Lists)
    /\ Len(Matching(store, S3_BUCKET, last.args.prefix)) > PageSize
    /\ Len(last.value) = PageSize

\* What a step that completes an upload_file call does to the bucket.
UploadStep ==
    last'.op = "upload_file" =>
        LET k == last'.args.file_key
            cs == calls'
        IN /\ cs[1].api = "put_object"
           /\ cs[1].result = "ClientError" =>
                  /\ Len(cs) = 1
                  /\ last'.raised
                  /\ store' = store
           /\ cs[1].result = "ok" =>
                  /\ Len(cs) = 2
                  /\ cs[2].api = "generate_presigned_url"
                  /\ k \in DOMAIN store'[S3_BUCKET]
                  /\ store'[S3_BUCKET][k].Body = last'.args.file_data
                  /\ \A j \in Keys \ {k} :
                         /\ j \in DOMAIN store'[S3_BUCKET] <=> j \in DOMAIN store[S3_BUCKET]
                         /\ j \in DOMAIN store[S3_BUCKET] =>
                                store'[S3_BUCKET][j] = store[S3_BUCKET][j]
                  /\ cs[2].result = "ClientError" =>
                         last'.raised /\ last'.exc = cs[2].error

\* C10: upload_file puts the object first and then generates the URL; a
\* rejected put ends the call with no URL request and the bucket unchanged;
\* after a served put the object stays stored, also when the URL request is
\* rejected and upload_file raises that error.
C10_PutThenUrlNoRollback == [][UploadStep]_vars

C10_Witness ==
    /\ IsOp({"upload_file"})
    /\ last.raised
    /\ Len(calls) = 2
    /\ calls[2].result = "ClientError"
    /\ last.args.file_key \in DOMAIN store[S3_BUCKET]

====
